---- MODULE Spec2Model ----
(***************************************************************************)
(* Model of the static file server of src/srv.go: the FileServer engine,   *)
(* its three FileServable sources (PlainFileServer, NotFoundFileServer,    *)
(* ZipFileServer), the path helpers, and the Handlers slice as Go keeps    *)
(* it (a view of a shared backing array).                                  *)
(*                                                                         *)
(* A Go string is a sequence of tokens: the separator "/", the dot ".",    *)
(* and words (maximal runs of other characters).  "/pub/A.zip" is          *)
(* <<"/", "pub", "/", "A", ".", "zip">>; the empty string is << >>.        *)
(***************************************************************************)
EXTENDS Integers, Sequences, FiniteSets, TLC

VARIABLES
    files,      \* the regular files on disk, each by its absolute location
    entries,    \* the entry names stored in the archive <root>/A.zip
    archMode,   \* what opening the archive / an entry of it yields
    srvs,       \* the FileServer values of the program, by variable
    heap,       \* the backing arrays of the Handlers slices
    hist,       \* per variable: the handlers appended along its history
    resp,       \* the outcome of the last ServeHTTP call
    splitArg,   \* the argument of the last splitFilePathWithExt call
    splitRes    \* and its result

vars == <<files, entries, archMode, srvs, heap, hist, resp, splitArg, splitRes>>

----------------------------------------------------------------------------
(* Bounds of the model.                                                    *)

\* longest Handlers list built under Spec
MaxHandlers == 2
\* longest Handlers list built under SpecAppend
MaxSliceLen == 4
\* most segments of a path handed to splitFilePathWithExt under SpecSplit
MaxSplitSegs == 3

----------------------------------------------------------------------------
(* Strings.                                                                *)

SEP == "/"
DOT == "."

Last(s) == s[Len(s)]
Front(s) == SubSeq(s, 1, Len(s) - 1)

\* strings.Split(val, "/"): the substrings between separators, in order
RECURSIVE SplitFrom(_, _, _)
SplitFrom(s, i, cur) ==
    IF i > Len(s) THEN <<cur>>
    ELSE IF s[i] = SEP THEN <<cur>> \o SplitFrom(s, i + 1, << >>)
    ELSE SplitFrom(s, i + 1, Append(cur, s[i]))

Split(s) == SplitFrom(s, 1, << >>)

\* filepath.Ext(path): the suffix beginning at the final dot in the final
\* element of path; empty if there is no dot
RECURSIVE ExtFrom(_, _)
ExtFrom(s, i) ==
    IF i < 1 \/ s[i] = SEP THEN << >>
    ELSE IF s[i] = DOT THEN SubSeq(s, i, Len(s))
    ELSE ExtFrom(s, i - 1)

Ext(s) == ExtFrom(s, Len(s))

\* strings.Join(elems, "/")
RECURSIVE JoinSep(_)
JoinSep(elems) ==
    IF Len(elems) = 0 THEN << >>
    ELSE IF Len(elems) = 1 THEN elems[1]
    ELSE elems[1] \o <<SEP>> \o JoinSep(Tail(elems))

DotSeg == <<DOT>>
DotDotSeg == <<DOT, DOT>>

\* filepath.Clean, the component loop: drop empty and "." components, let
\* ".." remove the component before it (at the root: drop it; at the start
\* of a relative path: keep it)
RECURSIVE CleanComps(_, _, _)
CleanComps(comps, out, rooted) ==
    IF Len(comps) = 0 THEN out
    ELSE LET c == Head(comps)
             rest == Tail(comps)
         IN IF c = << >> \/ c = DotSeg THEN CleanComps(rest, out, rooted)
            ELSE IF c = DotDotSeg
                 THEN IF Len(out) > 0 /\ Last(out) # DotDotSeg
                      THEN CleanComps(rest, Front(out), rooted)
                      ELSE IF rooted THEN CleanComps(rest, out, rooted)
                      ELSE CleanComps(rest, Append(out, c), rooted)
            ELSE CleanComps(rest, Append(out, c), rooted)

\* filepath.Clean(path)
Clean(s) ==
    IF s = << >> THEN DotSeg
    ELSE LET rooted == s[1] = SEP
             out == JoinSep(CleanComps(Split(s), << >>, rooted))
         IN IF rooted THEN <<SEP>> \o out
            ELSE IF out = << >> THEN DotSeg ELSE out

\* filepath.Join(elem...): the non-empty elements joined by the separator
\* and cleaned; the empty string when every element is empty
Join(elems) ==
    LET nonEmpty == SelectSeq(elems, LAMBDA e : e # << >>)
    IN IF Len(nonEmpty) = 0 THEN << >> ELSE Clean(JoinSep(nonEmpty))

\* fpj(path...)
fpj(elems) == Join(elems)

----------------------------------------------------------------------------
(* The file system and the archive, as the program reads them.  A location *)
(* is the sequence of component names from the file system root.  There    *)
(* are no symbolic links, so resolving a name is lexical.                  *)

\* the working directory of the process
Cwd == << <<"w">> >>
\* the document root, /w/pub
RootLoc == << <<"w">>, <<"pub">> >>
\* the archive, /w/pub/A.zip
ArchLoc == Append(RootLoc, <<"A", DOT, "zip">>)

RECURSIVE Walk(_, _)
Walk(comps, loc) ==
    IF Len(comps) = 0 THEN loc
    ELSE LET c == Head(comps)
         IN IF c = << >> \/ c = DotSeg THEN Walk(Tail(comps), loc)
            ELSE IF c = DotDotSeg
                 THEN Walk(Tail(comps), IF Len(loc) = 0 THEN loc ELSE Front(loc))
            ELSE Walk(Tail(comps), Append(loc, c))

\* the location a non-empty name denotes, from the root or from Cwd
Resolve(s) == Walk(Split(s), IF s[1] = SEP THEN << >> ELSE Cwd)

IsPrefix(p, q) == Len(p) <= Len(q) /\ SubSeq(q, 1, Len(p)) = p

IsDirLoc(loc) ==
    \/ IsPrefix(loc, Cwd)
    \/ \E f \in files : Len(loc) < Len(f) /\ IsPrefix(loc, f)

\* os.Stat(name): "file", "dir", or "none" when Stat returns an error
Stat(s) ==
    IF s = << >> THEN "none"
    ELSE LET loc == Resolve(s)
         IN IF loc \in files
            THEN IF Last(s) = SEP THEN "none" ELSE "file"
            ELSE IF IsDirLoc(loc) THEN "dir" ELSE "none"

\* fileExists without the IsDir test: a directory counts as a file
fileExistsAnyKind(filePath) == Stat(filePath) # "none"

\* fileExists: stat != nil && !stat.IsDir()
fileExists(filePath) == Stat(filePath) = "file"

\* os.Open(name) on a regular file: nil or the error
OsOpenFile(s) ==
    IF Resolve(s) = ArchLoc /\ archMode = "perm" THEN "ErrPermission"
    ELSE IF Resolve(s) = ArchLoc /\ archMode = "gone" THEN "ErrNotExist"
    ELSE "ok"

\* zip.OpenReader(name): "ok" or the error it returns
ZipOpenReader(s) ==
    LET st == Stat(s)
    IN IF st = "none" THEN "ErrNotExist"
       ELSE IF st = "dir" THEN "ErrIsDir"
       ELSE IF OsOpenFile(s) # "ok" THEN OsOpenFile(s)
       ELSE IF Resolve(s) # ArchLoc \/ archMode = "corrupt" THEN "ErrFormat"
       ELSE "ok"

\* fs.ValidPath(name)
ValidPath(name) ==
    \/ name = DotSeg
    \/ \A i \in 1..Len(Split(name)) :
          Split(name)[i] \notin {<< >>, DotSeg, DotDotSeg}

\* (*zip.Reader).Open(name): "file", "dir" (a directory of the archive's
\* tree, whose Read fails) or the error
ReaderOpen(name) ==
    IF ~ValidPath(name) THEN "ErrInvalid"
    ELSE IF name \in entries
         THEN IF archMode = "badentry" THEN "ErrAlgorithm" ELSE "file"
    ELSE IF name = DotSeg
            \/ \E e \in entries : IsPrefix(name \o <<SEP>>, e)
         THEN "dir"
    ELSE "ErrNotExist"

----------------------------------------------------------------------------
(* What a request produces.                                                *)

ZIP_EXT == <<DOT, "zip">>
HtmlSuffix == <<DOT, "html">>
IndexHtml == <<"index", DOT, "html">>
NotFoundName == <<"404", DOT, "html">>

FileBytes(loc) == [kind |-> "file", loc |-> loc, name |-> << >>]
EntryBytes(loc, name) == [kind |-> "entry", loc |-> loc, name |-> name]
Text(t) == [kind |-> "text", loc |-> << >>, name |-> <<t>>]

\* mime.TypeByExtension
TypeByExtension(ext) ==
    IF ext = HtmlSuffix THEN "text/html; charset=utf-8"
    ELSE IF ext = ZIP_EXT THEN "application/zip"
    ELSE ""

\* what one ServeFile leaves in the response writer and the request
Written(status, ctype, body, urlPath) ==
    [status |-> status, ctype |-> ctype, body |-> body, panic |-> "none",
     urlPath |-> urlPath]

\* a panic unwinding ServeHTTP: no response is completed
Panicked(kind, ctype, urlPath) ==
    [status |-> 0, ctype |-> ctype, body |-> << >>, panic |-> kind,
     urlPath |-> urlPath]

HasSuffix(s, suf) ==
    Len(s) >= Len(suf) /\ SubSeq(s, Len(s) - Len(suf) + 1, Len(s)) = suf

ContainsDotDot(s) == \E i \in 1..Len(Split(s)) : Split(s)[i] = DotDotSeg

\* http.Error(rew, msg, code): the header, then fmt.Fprintln(rew, msg)
HttpError(msg, code, urlPath) ==
    Written(code, "text/plain; charset=utf-8", <<Text(msg \o "\n")>>, urlPath)

\* http.ServeFile(rew, req, name)
HttpServeFile(urlPath, name) ==
    IF ContainsDotDot(urlPath)
    THEN HttpError("invalid URL path", 400, urlPath)
    ELSE IF HasSuffix(urlPath, <<SEP>> \o IndexHtml)
    THEN Written(301, "text/html; charset=utf-8", <<Text("redirect ./")>>, urlPath)
    ELSE IF Stat(name) = "none" \/ OsOpenFile(name) = "ErrNotExist"
    THEN HttpError("404 page not found", 404, urlPath)
    ELSE IF Stat(name) = "dir"
    THEN Written(301, "text/html; charset=utf-8", <<Text("redirect dir/")>>, urlPath)
    ELSE IF OsOpenFile(name) = "ErrPermission"
    THEN HttpError("403 Forbidden", 403, urlPath)
    ELSE Written(200,
                 IF TypeByExtension(Ext(name)) = "" THEN "sniffed"
                 ELSE TypeByExtension(Ext(name)),
                 <<FileBytes(Resolve(name))>>, urlPath)

----------------------------------------------------------------------------
(* The sources.  A handler value is its type and the string it converts    *)
(* to.                                                                     *)

PlainFileServer(dir) == [kind |-> "Plain", dir |-> dir]
NotFoundFileServer(dir) == [kind |-> "NotFound", dir |-> dir]
ZipFileServer(dir) == [kind |-> "Zip", dir |-> dir]

\* splitFilePathWithExt, the loop: the first element whose extension is ext
RECURSIVE SplitAt(_, _, _)
SplitAt(vals, ind, ext) ==
    IF ind > Len(vals) THEN [arch |-> << >>, file |-> << >>]
    ELSE IF Ext(vals[ind]) = ext
         THEN [arch |-> Join(SubSeq(vals, 1, ind)),
               file |-> Join(SubSeq(vals, ind + 1, Len(vals)))]
    ELSE SplitAt(vals, ind + 1, ext)

\* splitFilePathWithExt(val, ext)
splitFilePathWithExt(val, ext) == SplitAt(Split(val), 1, ext)

\* errNotExistOrPanic swallowing the other errors as not-found
errSwallowed(err) ==
    IF err \in {"ErrNotExist", "ErrPermission"} THEN "false" ELSE "true"

\* errNotExistOrPanic(err): the value returned, or "panic"
errNotExistOrPanic(err) ==
    IF err \in {"ErrNotExist", "ErrPermission"} THEN "false" ELSE "panic"

\* NotFoundFileServer.filePath
NotFoundFilePath(self) == fpj(<<self.dir, NotFoundName>>)

\* NotFoundFileServer.ServeFile
NotFoundServeFile(self, urlPath) ==
    HttpServeFile(urlPath, NotFoundFilePath(self))

\* PlainFileServer.ServeFile
PlainServeFile(self, urlPath, filePath) == HttpServeFile(urlPath, filePath)

\* ZipFileServer.ServeFile.  With a nil zipReader the call zipReader.Open
\* dereferences nil; with a nil file io.Copy calls Read on a nil interface.
ZipServeFile(self, urlPath, filePath) ==
    LET sp == splitFilePathWithExt(filePath, ZIP_EXT)
        opened == ZipOpenReader(sp.arch)
        e1 == errNotExistOrPanic(opened)
        file == ReaderOpen(sp.file)
        e2 == errNotExistOrPanic(file)
        ctype == TypeByExtension(Ext(sp.file))
    IN IF opened # "ok" /\ e1 = "panic" THEN Panicked("error", "", urlPath)
       ELSE IF opened # "ok" /\ e1 = "true" THEN NotFoundServeFile(self, urlPath)
       ELSE IF opened # "ok" THEN Panicked("nilDeref", "", sp.file)
       ELSE IF file \notin {"file", "dir"} /\ e2 = "panic"
            THEN Panicked("error", "", sp.file)
       ELSE IF file \notin {"file", "dir"} /\ e2 = "true"
            THEN NotFoundServeFile(self, sp.file)
       ELSE IF file \notin {"file", "dir"} THEN Panicked("nilDeref", ctype, sp.file)
       ELSE IF file = "dir" THEN Written(200, ctype, << >>, sp.file)
       ELSE Written(200, ctype, <<EntryBytes(Resolve(sp.arch), sp.file)>>, sp.file)

\* ZipFileServer.FileExists
ZipFileExists(filePath) == fileExists(splitFilePathWithExt(filePath, ZIP_EXT).arch)

\* han.FileExists(filePath), by the dynamic type of han
FileExists(han, filePath) ==
    IF han.kind = "Plain" THEN fileExists(filePath)
    ELSE IF han.kind = "NotFound" THEN fileExists(NotFoundFilePath(han))
    ELSE ZipFileExists(filePath)

\* han.ServeFile(rew, req, filePath), by the dynamic type of han
ServeFile(han, urlPath, filePath) ==
    IF han.kind = "Plain" THEN PlainServeFile(han, urlPath, filePath)
    ELSE IF han.kind = "NotFound" THEN NotFoundServeFile(han, urlPath)
    ELSE ZipServeFile(han, urlPath, filePath)

----------------------------------------------------------------------------
(* The Handlers slice: a view (arr, len, cap) of a backing array.          *)

NilSlice == [arr |-> 0, len |-> 0, cap |-> 0]
NoHandler == [kind |-> "nil", dir |-> << >>]

\* the elements a slice shows
Elems(sl, h) == IF sl.arr = 0 THEN << >> ELSE SubSeq(h[sl.arr], 1, sl.len)

\* the capacity of the array append allocates: the runtime doubles a small
\* slice, and takes the needed length when that is more
NextSliceCap(newLen, oldCap) == IF newLen > 2 * oldCap THEN newLen ELSE 2 * oldCap

FreshArr(h) == CHOOSE a \in 1..(Cardinality(DOMAIN h) + 1) : a \notin DOMAIN h

\* append(sl, han): in place when the capacity allows, else into a new array
GoAppend(sl, han, h) ==
    IF sl.len < sl.cap
    THEN [slice |-> [sl EXCEPT !.len = sl.len + 1],
          heap |-> [h EXCEPT ![sl.arr][sl.len + 1] = han]]
    ELSE LET a == FreshArr(h)
             c == NextSliceCap(sl.len + 1, sl.cap)
             cells == [k \in 1..c |->
                          IF k <= sl.len THEN Elems(sl, h)[k]
                          ELSE IF k = sl.len + 1 THEN han ELSE NoHandler]
         IN [slice |-> [arr |-> a, len |-> sl.len + 1, cap |-> c],
             heap |-> [b \in DOMAIN h \cup {a} |-> IF b = a THEN cells ELSE h[b]]]

\* the arrays some variable still refers to (the collector frees the rest)
Live(ss, h) == [a \in {ss[v].Handlers.arr : v \in DOMAIN ss} \ {0} |-> h[a]]

----------------------------------------------------------------------------
(* The engine.                                                             *)

Call(op, src, path, res) == [op |-> op, src |-> src, path |-> path, res |-> res]

Served(w, calls) ==
    [status |-> w.status, ctype |-> w.ctype, body |-> w.body, panic |-> w.panic,
     urlPath |-> w.urlPath, calls |-> calls]

\* the loop of ServeHTTP trying every source on one candidate shape before
\* the next shape
RECURSIVE TryShapes(_, _, _, _, _)
TryShapes(hans, k, urlPath, filePath, calls) ==
    LET shapes == <<filePath, filePath \o HtmlSuffix, fpj(<<filePath, IndexHtml>>)>>
        ind == ((k - 1) % Len(hans)) + 1
        shape == ((k - 1) \div Len(hans)) + 1
    IN IF k > 3 * Len(hans) THEN Served(Written(200, "", << >>, urlPath), calls)
       ELSE IF FileExists(hans[ind], shapes[shape])
            THEN Served(ServeFile(hans[ind], urlPath, shapes[shape]),
                        calls \o <<Call("FileExists", ind, shapes[shape], TRUE),
                                   Call("ServeFile", ind, shapes[shape], TRUE)>>)
       ELSE TryShapes(hans, k + 1, urlPath, filePath,
                      Append(calls, Call("FileExists", ind, shapes[shape], FALSE)))

\* the loop of ServeHTTP over hans, from index ind on
RECURSIVE TryHandlers(_, _, _, _, _)
TryHandlers(hans, ind, urlPath, filePath, calls) ==
    IF ind > Len(hans) THEN Served(Written(200, "", << >>, urlPath), calls)
    ELSE LET han == hans[ind]
             c2 == filePath \o HtmlSuffix
             c3 == fpj(<<filePath, IndexHtml>>)
             no1 == Append(calls, Call("FileExists", ind, filePath, FALSE))
             no2 == Append(no1, Call("FileExists", ind, c2, FALSE))
             no3 == Append(no2, Call("FileExists", ind, c3, FALSE))
         IN IF FileExists(han, filePath)
            THEN Served(ServeFile(han, urlPath, filePath),
                        calls \o <<Call("FileExists", ind, filePath, TRUE),
                                   Call("ServeFile", ind, filePath, TRUE)>>)
            ELSE IF FileExists(han, c2)
            THEN Served(ServeFile(han, urlPath, c2),
                        no1 \o <<Call("FileExists", ind, c2, TRUE),
                                 Call("ServeFile", ind, c2, TRUE)>>)
            ELSE IF FileExists(han, c3)
            THEN Served(ServeFile(han, urlPath, c3),
                        no2 \o <<Call("FileExists", ind, c3, TRUE),
                                 Call("ServeFile", ind, c3, TRUE)>>)
            ELSE TryHandlers(hans, ind + 1, urlPath, filePath, no3)

\* the sources of one request: append([]FileServable{Plain}, Handlers...),
\* a new array, the slice literal having no spare capacity
Hans(self, h) == <<PlainFileServer(self.Dir)>> \o Elems(self.Handlers, h)

\* the resolution part with the two loops exchanged
ResolutionByShape(self, h, reqPath) ==
    TryShapes(Hans(self, h), 1, reqPath, fpj(<<self.Dir, reqPath>>), << >>)

\* the resolution part of ServeHTTP
Resolution(self, h, reqPath) ==
    TryHandlers(Hans(self, h), 1, reqPath, fpj(<<self.Dir, reqPath>>), << >>)

\* the method switch without the HEAD/OPTIONS case ahead of GET
MethodSwitchProbesResolve(method) ==
    IF method \in {"GET", "HEAD", "OPTIONS"} THEN "resolve" ELSE "error"

\* the method switch of ServeHTTP
MethodSwitch(method) ==
    IF method \in {"HEAD", "OPTIONS"} THEN "return"
    ELSE IF method = "GET" THEN "resolve"
    ELSE "error"

\* FileServer.ServeHTTP: what the request leaves behind
ServeHTTPResult(self, h, method, reqPath) ==
    IF MethodSwitch(method) = "error"
    THEN Served(HttpError("", 405, reqPath), << >>)
    ELSE IF MethodSwitch(method) = "return"
    THEN Served(Written(200, "", << >>, reqPath), << >>)
    ELSE Resolution(self, h, reqPath)

----------------------------------------------------------------------------
(* The inputs.                                                             *)

RelDir == <<"pub">>
AbsDir == <<SEP, "w", SEP, "pub">>
Dirs == {RelDir, AbsDir}

XFile == Append(RootLoc, <<"x">>)
XHtmlFile == Append(RootLoc, <<"x", DOT, "html">>)
XIndexFile == RootLoc \o << <<"x">>, IndexHtml >>
NotFoundFile == Append(RootLoc, NotFoundName)

FileUniverse == {XFile, XHtmlFile, XIndexFile, NotFoundFile, ArchLoc}

\* a regular file is not also a directory
Consistent(fs) ==
    \A f \in fs, g \in fs : ~(Len(f) < Len(g) /\ IsPrefix(f, g))

PIndexEntry == <<"P", SEP>> \o IndexHtml
PHtmlEntry == <<"P", DOT, "html">>
EntryUniverse == {PIndexEntry, PHtmlEntry}

ArchModes == {"ok", "perm", "gone", "corrupt", "badentry"}

Methods == {"GET", "HEAD", "OPTIONS", "POST"}

ReqPaths ==
    { <<SEP>>,
      <<SEP, "x">>,
      <<SEP, "x", SEP>>,
      <<SEP, "x", DOT, "html">>,
      <<SEP, "x", SEP>> \o IndexHtml,
      <<SEP, "y">>,
      <<SEP, "A", DOT, "zip">>,
      <<SEP, "A", DOT, "zip", SEP, "P">>,
      <<SEP, "A", DOT, "zip", SEP>> \o PHtmlEntry,
      <<SEP, "A", DOT, "zip", SEP>> \o PIndexEntry }

HandlerChoices ==
    {PlainFileServer(RelDir), NotFoundFileServer(RelDir), ZipFileServer(RelDir)}

\* the program's FileServer variables
SrvVars == {"s", "t"}

NoResp == [method |-> "", path |-> << >>, status |-> 0, ctype |-> "",
           body |-> << >>, panic |-> "none", urlPath |-> << >>, calls |-> << >>]

----------------------------------------------------------------------------
(* The operations.                                                         *)

\* into = self.AppendHandler(handler), for the variables self and into
AppendHandler(self, handler, into) ==
    LET r == GoAppend(srvs[self].Handlers, handler, heap)
        val == [srvs[self] EXCEPT !.Handlers = r.slice]
        ss == [v \in SrvVars |-> IF v \in {self, into} THEN val ELSE srvs[v]]
    IN /\ srvs' = ss
       /\ heap' = Live(ss, r.heap)
       /\ hist' = [v \in SrvVars |->
                      IF v \in {self, into} THEN Append(hist[self], handler)
                      ELSE hist[v]]
       /\ UNCHANGED <<files, entries, archMode, resp, splitArg, splitRes>>

\* self.ServeHTTP(rew, req) with req.Method = method, req.URL.Path = reqPath
ServeHTTP(self, method, reqPath) ==
    /\ resp' = [method |-> method, path |-> reqPath]
                @@ ServeHTTPResult(srvs[self], heap, method, reqPath)
    /\ UNCHANGED <<files, entries, archMode, srvs, heap, hist, splitArg, splitRes>>

\* one call of splitFilePathWithExt and of ZipFileServer.FileExists on val
SplitCall(val) ==
    /\ splitArg' = val
    /\ splitRes' = [arch |-> splitFilePathWithExt(val, ZIP_EXT).arch,
                    file |-> splitFilePathWithExt(val, ZIP_EXT).file,
                    exists |-> ZipFileExists(val)]
    /\ UNCHANGED <<files, entries, archMode, srvs, heap, hist, resp>>

----------------------------------------------------------------------------
(* Spec: one server, any file system, any request.                         *)

Init ==
    /\ files \in {fs \in SUBSET FileUniverse : Consistent(fs)}
    /\ entries \in SUBSET EntryUniverse
    /\ archMode \in ArchModes
    /\ ArchLoc \notin files => entries = {} /\ archMode = "ok"
    \* an archive that does not open normally holds both entries
    /\ archMode # "ok" => entries = EntryUniverse
    /\ \E d \in Dirs : srvs = [v \in SrvVars |-> [Dir |-> d, Handlers |-> NilSlice]]
    /\ heap = << >>
    /\ hist = [v \in SrvVars |-> << >>]
    /\ resp = NoResp
    /\ splitArg = << >>
    /\ splitRes = [arch |-> << >>, file |-> << >>, exists |-> FALSE]

\* the server is configured before it serves
Configure ==
    \E han \in HandlerChoices :
        /\ resp = NoResp
        /\ srvs["s"].Handlers.len < MaxHandlers
        /\ AppendHandler("s", han, "s")

\* ServeHTTP changes nothing but the response, so a behaviour follows one
\* request: any later one is answered as a first one in the same state
Request ==
    \E m \in Methods, p \in ReqPaths :
        /\ resp = NoResp
        /\ ServeHTTP("s", m, p)

Next == Configure \/ Request

Spec == Init /\ [][Next]_vars

----------------------------------------------------------------------------
(* SpecAppend: two FileServer variables, AppendHandler through either, the *)
(* returned value kept in either, and requests in between.                 *)

InitAppend ==
    /\ files = {XHtmlFile, NotFoundFile, ArchLoc}
    /\ entries = EntryUniverse
    /\ archMode = "ok"
    /\ srvs = [v \in SrvVars |-> [Dir |-> RelDir, Handlers |-> NilSlice]]
    /\ heap = << >>
    /\ hist = [v \in SrvVars |-> << >>]
    /\ resp = NoResp
    /\ splitArg = << >>
    /\ splitRes = [arch |-> << >>, file |-> << >>, exists |-> FALSE]

AppendAny ==
    \E self \in SrvVars, into \in SrvVars, han \in HandlerChoices :
        /\ resp = NoResp
        /\ srvs[self].Handlers.len < MaxSliceLen
        /\ AppendHandler(self, han, into)

RequestAny ==
    \E self \in SrvVars :
        /\ resp = NoResp
        /\ ServeHTTP(self, "GET", <<SEP, "y">>)

NextAppend == AppendAny \/ RequestAny

SpecAppend == InitAppend /\ [][NextAppend]_vars

----------------------------------------------------------------------------
(* SpecSplit: splitFilePathWithExt and ZipFileServer.FileExists on paths   *)
(* of up to MaxSplitSegs segments, and on the example of the source's      *)
(* comment.                                                                *)

SegNames == {<< >>, <<"w">>, <<"pub">>, <<"A", DOT, "zip">>, <<"P">>}

SegLists == UNION {[1..n -> SegNames] : n \in 1..MaxSplitSegs}

DocExample ==
    <<SEP, "report", SEP, "archive", DOT, "zip", SEP, "public", SEP>> \o IndexHtml

SplitInputs == {JoinSep(l) : l \in SegLists} \cup {DocExample}

SplitAny == \E val \in SplitInputs : SplitCall(val)

SpecSplit == InitAppend /\ [][SplitAny]_vars

----------------------------------------------------------------------------
(* The properties.  Under Spec the server is the variable "s" and resp is  *)
(* the answer to the request (resp.method, resp.path).                     *)

TheServer == srvs["s"]
TheHans == Hans(TheServer, heap)
BasePath == fpj(<<TheServer.Dir, resp.path>>)
Candidates == <<BasePath, BasePath \o HtmlSuffix, fpj(<<BasePath, IndexHtml>>)>>

\* the (source, shape) pairs whose existence test answers true
PairsOf(hans, cands) ==
    {p \in (1..Len(hans)) \X (1..3) : FileExists(hans[p[1]], cands[p[2]])}

MatchingPairs == PairsOf(TheHans, Candidates)

Before(p, q) == p[1] < q[1] \/ (p[1] = q[1] /\ p[2] <= q[2])

FirstOf(pairs) == CHOOSE p \in pairs : \A q \in pairs : Before(p, q)

ServeCalls == SelectSeq(resp.calls, LAMBDA c : c.op = "ServeFile")
ExistsCalls == SelectSeq(resp.calls, LAMBDA c : c.op = "FileExists")

\* the pair tested by the n-th existence test when sources are the outer loop
PairOf(n) == <<((n - 1) \div 3) + 1, ((n - 1) % 3) + 1>>

\* the request reached ServeFile of a ZipFileServer
ServedByZip ==
    /\ resp.method = "GET"
    /\ ServeCalls # << >>
    /\ TheHans[ServeCalls[1].src].kind = "Zip"

ZipSplit == splitFilePathWithExt(ServeCalls[1].path, ZIP_EXT)

\* the error, if any, that ZipFileServer.ServeFile met on the served path
ZipError ==
    IF ZipOpenReader(ZipSplit.arch) # "ok" THEN ZipOpenReader(ZipSplit.arch)
    ELSE IF ReaderOpen(ZipSplit.file) \notin {"file", "dir"} THEN ReaderOpen(ZipSplit.file)
    ELSE "none"

NotFoundPage == <<FileBytes(NotFoundFile)>>

\* C1: a GET that no source matches on any candidate is answered with the
\* bytes of <root>/404.html when that file exists.
C1_NotFoundPageServed ==
    (resp.method = "GET" /\ MatchingPairs = {} /\ NotFoundFile \in files)
        => resp.body = NotFoundPage

\* C2: when ZipFileServer.ServeFile cannot open the archive or the entry for
\* a not-exist or permission error, the request ends with the not-found page
\* and without a panic.
C2_ZipMissIsNotFound ==
    (ServedByZip /\ ZipError \in {"ErrNotExist", "ErrPermission"})
        => /\ resp.panic = "none"
           /\ NotFoundFile \in files => resp.body = NotFoundPage

\* C3: with the ZipFileServer as the configured source, a relative root and
\* the archive holding P/index.html, a GET for /A.zip/P/index.html and a GET
\* for /A.zip/P both return that entry's bytes typed as ".html".
C3_ArchiveSuffixResolution ==
    ( /\ resp.method = "GET"
      /\ TheServer.Dir = RelDir
      /\ Elems(TheServer.Handlers, heap) = <<ZipFileServer(RelDir)>>
      /\ ArchLoc \in files /\ archMode = "ok" /\ PIndexEntry \in entries
      /\ resp.path \in {<<SEP, "A", DOT, "zip", SEP, "P">>,
                        <<SEP, "A", DOT, "zip", SEP>> \o PIndexEntry} )
        => /\ resp.body = <<EntryBytes(ArchLoc, PIndexEntry)>>
           /\ resp.ctype = TypeByExtension(HtmlSuffix)

\* the shapes among cands that are regular files on disk
RegularShapes(cands) == {k \in 1..3 : Resolve(cands[k]) \in files}
FirstShape(ks) == CHOOSE k \in ks : \A j \in ks : k <= j

C5_FirstPairServes ==
    resp.method = "GET"
        => \A cands \in {Candidates}, tests \in {ExistsCalls} :
           \A pairs \in {PairsOf(TheHans, cands)} :
              /\ \A n \in 1..Len(tests) :
                    /\ tests[n].src = PairOf(n)[1]
                    /\ tests[n].path = cands[PairOf(n)[2]]
              /\ pairs = {} =>
                    /\ ServeCalls = << >>
                    /\ Len(tests) = 3 * Len(TheHans)
              /\ pairs # {} =>
                    /\ ServeCalls = <<Call("ServeFile", FirstOf(pairs)[1],
                                           cands[FirstOf(pairs)[2]], TRUE)>>
                    /\ PairOf(Len(tests)) = FirstOf(pairs)

C5_Witness ==
    /\ resp.method = "GET"
    /\ ServeCalls # << >>
    /\ ServeCalls[1].src = 1
    /\ ServeCalls[1].path = Candidates[2]
    /\ Len(TheHans) = 3
    /\ TheHans[3].kind = "NotFound"
    /\ <<3, 1>> \in MatchingPairs

\* C6: a HEAD or OPTIONS request makes no FileExists or ServeFile call and
\* returns success with an empty body.
C6_ProbesTouchNothing ==
    resp.method \in {"HEAD", "OPTIONS"}
        => /\ resp.calls = << >>
           /\ resp.body = << >>
           /\ resp.status = 200
           /\ resp.panic = "none"

C6_Witness ==
    /\ resp.method = "HEAD"
    /\ resp.path = <<SEP, "x">>
    /\ XFile \in files
    /\ Len(TheHans) > 1
    /\ resp.status = 200

\* C7: a request whose method is not GET, HEAD or OPTIONS gets 405 with no
\* body and no FileExists or ServeFile call.
C7_OtherMethodsNoBody ==
    (resp.method \notin {"", "GET", "HEAD", "OPTIONS"})
        => /\ resp.status = 405
           /\ resp.body = << >>
           /\ resp.calls = << >>

\* C9: when ZipFileServer.ServeFile meets an error that is neither not-exist
\* nor permission-denied, the request ends in a panic carrying that error:
\* nothing is served and no candidate or source is tried after it.
C9_HardFailureAborts ==
    (ServedByZip /\ ZipError \notin {"none", "ErrNotExist", "ErrPermission"})
        => /\ resp.panic = "error"
           /\ resp.body = << >>
           /\ resp.status = 0
           /\ Len(ServeCalls) = 1
           /\ Last(resp.calls).op = "ServeFile"

C9_Witness ==
    /\ ServedByZip
    /\ archMode = "corrupt"
    /\ ZipError = "ErrFormat"
    /\ resp.panic = "error"

----------------------------------------------------------------------------
(* Under SpecSplit.                                                        *)

SplitVals == Split(splitArg)
ZipSegs == {i \in 1..Len(SplitVals) : Ext(SplitVals[i]) = ZIP_EXT}
FirstZipSeg == CHOOSE i \in ZipSegs : \A j \in ZipSegs : i <= j

\* C8: the archive locator is the prefix of the path up to and including the
\* leftmost ".zip" segment, the same location as that prefix of the input,
\* leading separator included, and the rest is the inner path; without such
\* a segment the locator is empty and FileExists is false.
C8_LocatorIsInputPrefix ==
    splitArg # << >>
        => IF ZipSegs = {}
           THEN splitRes.arch = << >> /\ ~splitRes.exists
           ELSE /\ Resolve(splitRes.arch)
                     = Resolve(JoinSep(SubSeq(SplitVals, 1, FirstZipSeg)))
                /\ splitArg[1] = SEP => splitRes.arch[1] = SEP

----------------------------------------------------------------------------
(* Under SpecAppend.                                                       *)

\* C10: the Handlers of every FileServer value are the handlers appended
\* along its own history, in call order.
C10_HandlersFollowHistory ==
    \A v \in SrvVars : Elems(srvs[v].Handlers, heap) = hist[v]
====
